---- MODULE Spec2Model ----
(***************************************************************************)
(* Model of the Java chunker of src/core/indexing/chunk/java/code.ts.      *)
(*                                                                         *)
(* Text is a sequence of tokens (strings); one token is one unit of the    *)
(* byte offsets of the syntax tree, and the token "\n" ends a row.  A      *)
(* syntax node is a record                                                 *)
(*   [type, startIndex, endIndex, startRow, endRow, children]              *)
(* as web-tree-sitter hands it to the chunker; node.text is the slice of   *)
(* the parsed text between startIndex and endIndex.                        *)
(***************************************************************************)
EXTENDS Integers, Sequences, FiniteSets, TLC

\* Bounds of the model.
MaxNodes == 3
MaxParNodes == 2

\* NODE_TYPES of the chunker.
PACKAGE == "package_declaration"
CLASS == "class_declaration"
INTERFACE == "interface_declaration"
METHOD == "method_declaration"
CONSTRUCTOR == "constructor_declaration"
ENUM == "enum_declaration"
ANNOTATION == "annotation_type_declaration"
CLASS_BODY == "class_body"
INTERFACE_BODY == "interface_body"
IDENTIFIER == "identifier"
PARAMETERS == "formal_parameters"
BLOCK == "block"

\* The absent value (null / undefined).
Null == [type |-> "null"]

----------------------------------------------------------------------------
\* Strings.

\* String.prototype.slice(a, b) for 0 <= a, 0 <= b.
Slice(s, a, b) ==
    LET lo == IF a > Len(s) THEN Len(s) ELSE a
        hi == IF b > Len(s) THEN Len(s) ELSE b
    IN  IF lo >= hi THEN <<>> ELSE SubSeq(s, lo + 1, hi)

IsSpace(t) == t \in {" ", "\n"}

RECURSIVE TrimLeft(_)
TrimLeft(s) ==
    IF s # <<>> /\ IsSpace(Head(s)) THEN TrimLeft(Tail(s)) ELSE s

RECURSIVE TrimRight(_)
TrimRight(s) ==
    IF s # <<>> /\ IsSpace(s[Len(s)]) THEN TrimRight(SubSeq(s, 1, Len(s) - 1)) ELSE s

\* A blank check that takes only the empty text for blank.
TrimNothing(s) == s

\* String.prototype.trim().
Trim(s) == TrimRight(TrimLeft(s))

\* String.prototype.replace(pat, rep) with a string pattern: the first
\* occurrence only.
ReplaceFirst(s, pat, rep) ==
    LET hits == {i \in 0..(Len(s) - Len(pat)) : Slice(s, i, i + Len(pat)) = pat}
    IN  IF hits = {} THEN s
        ELSE LET i == CHOOSE h \in hits : \A g \in hits : h <= g
             IN  Slice(s, 0, i) \o rep \o Slice(s, i + Len(pat), Len(s))

\* Number of row breaks in a text.
RECURSIVE Rows(_)
Rows(s) == IF s = <<>> THEN 0 ELSE (IF Head(s) = "\n" THEN 1 ELSE 0) + Rows(Tail(s))

----------------------------------------------------------------------------
\* The syntax tree provider: Java sources and the trees the parser builds
\* for them.  A source is described by its declarations; ParseFile gives
\* its text and its tree.

Node(t, s, e, r1, r2, ch) ==
    [type |-> t, startIndex |-> s, endIndex |-> e,
     startRow |-> r1, endRow |-> r2, children |-> ch]

\* A node without children that covers n tokens of one row.
Leaf(t, s, n, r) == Node(t, s, s + n, r, r, <<>>)

TypeNames == <<"Outer", "Inner", "Deepest", "Deeper", "Innermost">>
TypeName(d) == IF d <= Len(TypeNames) THEN TypeNames[d] ELSE "Nested"

\* Members of a class or interface body that hold no further member.
LeafKinds == {"method", "oneline", "wrapped", "abstract", "constructor", "field", "twin"}
\* Members and top-level declarations that hold members.
TypeKinds == {CLASS, INTERFACE}
\* Top-level declarations that hold no member.
TopLeafKinds == {ENUM, ANNOTATION, "import_declaration"}

LeafText(kind, d) ==
    CASE kind = "method"      -> <<"void", " ", "m", "()", " ", "{", "\n", "x;", "\n", "}">>
      [] kind = "oneline"     -> <<"void", " ", "one", "()", " ", "{", "}">>
      [] kind = "wrapped"     -> <<"void", " ", "w", "(", "\n", ")", " ", "{", "}">>
      [] kind = "abstract"    -> <<"void", " ", "abs", "()", ";">>
      [] kind = "constructor" -> <<TypeName(d), "()", " ", "{", "\n", "x;", "\n", "}">>
      [] kind = "field"       -> <<"int", " ", "f", ";">>
      [] kind = "twin"        -> <<"void", " ", "m", "()", " ", "{", "\n", "}", " ",
                                   "void", " ", "m", "()", " ", "{", "\n", "}">>
      [] kind = ENUM          -> <<"enum", " ", "E", " ", "{", "\n", "A", "\n", "}">>
      [] kind = ANNOTATION    -> <<"@interface", " ", "An", " ", "{", "}">>
      [] kind = "import_declaration" -> <<"import", " ", "java.util.List", ";">>
      [] kind = PACKAGE       -> <<"package", " ", "p", ";">>

\* The node of a leaf declaration of the given kind that starts at offset s
\* in row r (d: the nesting depth of the enclosing type).
LeafNode(kind, d, s, r) ==
    LET n == Len(LeafText(kind, d))
        r2 == r + Rows(LeafText(kind, d))
    IN  CASE kind = "method" ->
               Node(METHOD, s, s + n, r, r2,
                    <<Leaf("void_type", s, 1, r), Leaf(IDENTIFIER, s + 2, 1, r),
                      Leaf(PARAMETERS, s + 3, 1, r),
                      Node(BLOCK, s + 5, s + 10, r, r2, <<>>)>>)
          [] kind = "oneline" ->
               Node(METHOD, s, s + n, r, r2,
                    <<Leaf("void_type", s, 1, r), Leaf(IDENTIFIER, s + 2, 1, r),
                      Leaf(PARAMETERS, s + 3, 1, r), Leaf(BLOCK, s + 5, 2, r)>>)
          [] kind = "wrapped" ->
               Node(METHOD, s, s + n, r, r2,
                    <<Leaf("void_type", s, 1, r), Leaf(IDENTIFIER, s + 2, 1, r),
                      Node(PARAMETERS, s + 3, s + 6, r, r2, <<>>),
                      Leaf(BLOCK, s + 7, 2, r2)>>)
          [] kind = "abstract" ->
               Node(METHOD, s, s + n, r, r2,
                    <<Leaf("void_type", s, 1, r), Leaf(IDENTIFIER, s + 2, 1, r),
                      Leaf(PARAMETERS, s + 3, 1, r), Leaf(";", s + 4, 1, r)>>)
          [] kind = "constructor" ->
               Node(CONSTRUCTOR, s, s + n, r, r2,
                    <<Leaf(IDENTIFIER, s, 1, r), Leaf(PARAMETERS, s + 1, 1, r),
                      Node("constructor_body", s + 3, s + 8, r, r2, <<>>)>>)
          [] kind = "field" ->
               Node("field_declaration", s, s + n, r, r2,
                    <<Leaf("integral_type", s, 1, r),
                      Node("variable_declarator", s + 2, s + 3, r, r,
                           <<Leaf(IDENTIFIER, s + 2, 1, r)>>),
                      Leaf(";", s + 3, 1, r)>>)
          [] kind = ENUM ->
               Node(ENUM, s, s + n, r, r2,
                    <<Leaf("enum", s, 1, r), Leaf(IDENTIFIER, s + 2, 1, r),
                      Node("enum_body", s + 4, s + 9, r, r2,
                           <<Node("enum_constant", s + 6, s + 7, r + 1, r + 1,
                                  <<Leaf(IDENTIFIER, s + 6, 1, r + 1)>>)>>)>>)
          [] kind = ANNOTATION ->
               Node(ANNOTATION, s, s + n, r, r2,
                    <<Leaf("@interface", s, 1, r), Leaf(IDENTIFIER, s + 2, 1, r),
                      Leaf("annotation_type_body", s + 4, 2, r)>>)
          [] kind = "import_declaration" ->
               Node("import_declaration", s, s + n, r, r2,
                    <<Leaf("import", s, 1, r), Leaf("scoped_identifier", s + 2, 1, r),
                      Leaf(";", s + 3, 1, r)>>)
          [] kind = PACKAGE ->
               Node(PACKAGE, s, s + n, r, r2,
                    <<Leaf("package", s, 1, r), Leaf(IDENTIFIER, s + 2, 1, r),
                      Leaf(";", s + 3, 1, r)>>)

\* The two nodes of a twin: two methods of the same name, the second of
\* which starts in the row in which the first ends.
TwinNodes(s, r) ==
    <<Node(METHOD, s, s + 8, r, r + 1,
           <<Leaf("void_type", s, 1, r), Leaf(IDENTIFIER, s + 2, 1, r),
             Leaf(PARAMETERS, s + 3, 1, r),
             Node(BLOCK, s + 5, s + 8, r, r + 1, <<>>)>>),
      Node(METHOD, s + 9, s + 17, r + 1, r + 2,
           <<Leaf("void_type", s + 9, 1, r + 1), Leaf(IDENTIFIER, s + 11, 1, r + 1),
             Leaf(PARAMETERS, s + 12, 1, r + 1),
             Node(BLOCK, s + 14, s + 17, r + 1, r + 2, <<>>)>>)>>

\* A declaration: [kind, members]; members is empty for a leaf kind.
Decl(k, ms) == [kind |-> k, members |-> ms]

RECURSIVE DeclText(_, _), MembersText(_, _)
\* The text of a declaration at nesting depth d; every member of a type
\* body starts a row of its own.
DeclText(decl, d) ==
    IF decl.kind \in TypeKinds
    THEN <<(IF decl.kind = CLASS THEN "class" ELSE "interface"), " ", TypeName(d + 1), " ", "{">>
         \o MembersText(decl.members, d + 1) \o <<"\n", "}">>
    ELSE LeafText(decl.kind, d)
MembersText(ms, d) ==
    IF ms = <<>> THEN <<>>
    ELSE <<"\n">> \o DeclText(Head(ms), d) \o MembersText(Tail(ms), d)

RECURSIVE DeclNode(_, _, _, _), MemberNodes(_, _, _, _)
\* The node of a declaration that starts at offset s in row r.
DeclNode(decl, d, s, r) ==
    IF decl.kind \in TypeKinds
    THEN LET n == Len(DeclText(decl, d))
             r2 == r + Rows(DeclText(decl, d))
         IN  Node(decl.kind, s, s + n, r, r2,
                  <<Leaf((IF decl.kind = CLASS THEN "class" ELSE "interface"), s, 1, r),
                    Leaf(IDENTIFIER, s + 2, 1, r),
                    Node((IF decl.kind = CLASS THEN CLASS_BODY ELSE INTERFACE_BODY),
                         s + 4, s + n, r, r2,
                         <<Leaf("{", s + 4, 1, r)>>
                         \o MemberNodes(decl.members, d + 1, s + 5, r)
                         \o <<Leaf("}", s + n - 1, 1, r2)>>)>>)
    ELSE LeafNode(decl.kind, d, s, r)
\* The nodes of the members ms; s and r are the offset and the row of the
\* row break before the first of them.
MemberNodes(ms, d, s, r) ==
    IF ms = <<>> THEN <<>>
    ELSE LET t == DeclText(Head(ms), d)
         IN  (IF Head(ms).kind = "twin" THEN TwinNodes(s + 1, r + 1)
              ELSE <<DeclNode(Head(ms), d, s + 1, r + 1)>>)
             \o MemberNodes(Tail(ms), d, s + 1 + Len(t), r + 1 + Rows(t))

\* Member sequences with n declarations in all, nested ones included.
RECURSIVE Members(_)
Members(n) ==
    IF n = 0 THEN {<<>>}
    ELSE {<<Decl(k, <<>>)>> \o rest : k \in LeafKinds, rest \in Members(n - 1)}
         \cup UNION {{<<Decl(k, in)>> \o rest :
                         k \in TypeKinds, in \in Members(j), rest \in Members(n - 1 - j)} :
                     j \in 0..(n - 1)}

\* Top-level declaration sequences with n declarations in all.
RECURSIVE Tops(_)
Tops(n) ==
    IF n = 0 THEN {<<>>}
    ELSE {<<Decl(k, <<>>)>> \o rest : k \in TopLeafKinds, rest \in Tops(n - 1)}
         \cup UNION {{<<Decl(k, in)>> \o rest :
                         k \in TypeKinds, in \in Members(j), rest \in Tops(n - 1 - j)} :
                     j \in 0..(n - 1)}

\* A source: leading blank text, an optional package declaration and the
\* top-level declarations, each starting a row of its own.
Sources(n) ==
    [lead : {<<>>, <<" ", "\n">>}, pkg : BOOLEAN, tops : UNION {Tops(j) : j \in 0..n}]

SourceText(src) ==
    src.lead \o (IF src.pkg THEN LeafText(PACKAGE, 0) ELSE <<>>)
             \o MembersText(src.tops, 0)

\* parser.parse(contents).rootNode for the text of src.
ParseFile(src) ==
    LET text == SourceText(src)
        s0 == Len(src.lead)
        r0 == Rows(src.lead)
        pk == IF src.pkg THEN <<LeafNode(PACKAGE, 0, s0, r0)>> ELSE <<>>
        s1 == IF src.pkg THEN s0 + Len(LeafText(PACKAGE, 0)) ELSE s0
    IN  Node("program", 0, Len(text), 0, Rows(text),
             pk \o MemberNodes(src.tops, 0, s1, r0))

----------------------------------------------------------------------------
\* The chunker's helpers.  contents is the parsed text (node.text reads it)
\* and root is the node a walk up the parent references ends at.

NodeText(node, contents) == Slice(contents, node.startIndex, node.endIndex)

\* Array.prototype.find with a test on the type: the first of the nodes
\* whose type is one of types, or Null.
Find(seq, types) ==
    LET hits == {i \in 1..Len(seq) : seq[i].type \in types}
    IN  IF hits = {} THEN Null
        ELSE seq[CHOOSE h \in hits : \A g \in hits : h <= g]

RECURSIVE findNodeByType(_, _), findInChildren(_, _)
findNodeByType(node, type) ==
    IF node.type = type THEN node ELSE findInChildren(node.children, type)
findInChildren(children, type) ==
    IF children = <<>> THEN Null
    ELSE LET result == findNodeByType(Head(children), type)
         IN  IF result # Null THEN result ELSE findInChildren(Tail(children), type)

isClassOrInterface(node) == CLASS = node.type \/ INTERFACE = node.type

isClassOrInterfaceBody(node) == CLASS_BODY = node.type \/ INTERFACE_BODY = node.type

isCollapsedNode(node) == node.type = METHOD

getPackageName(root, contents) ==
    LET packageNode == findNodeByType(root, PACKAGE)
    IN  IF packageNode # Null
        THEN Trim(ReplaceFirst(ReplaceFirst(NodeText(packageNode, contents),
                                            <<"package", " ">>, <<>>),
                               <<";">>, <<>>))
        ELSE <<>>

getSimpleClassName(node, contents) ==
    LET classNameNode == findNodeByType(node, IDENTIFIER)
    IN  IF classNameNode # Null THEN NodeText(classNameNode, contents) ELSE <<>>

\* parentClassName is <<>> when the caller passes none.
getFullClassName(root, node, contents, parentClassName) ==
    LET packageName == getPackageName(root, contents)
        className == getSimpleClassName(node, contents)
        fullClassName == IF packageName # <<>>
                         THEN packageName \o <<".">> \o className
                         ELSE className
    IN  IF parentClassName # <<>>
        THEN parentClassName \o <<"$">> \o fullClassName
        ELSE fullClassName

IsIdentifier(child) == child.type = IDENTIFIER

\* The identifier of a method without its rows.
getMethodName(methodNode, contents) ==
    LET nameNode == Find(methodNode.children, {IDENTIFIER})
    IN  IF nameNode = Null THEN <<>> ELSE NodeText(nameNode, contents)

getMethodIdentifier(methodNode, contents) ==
    LET nameNode == Find(methodNode.children, {IDENTIFIER})
    IN  IF nameNode = Null THEN <<>>
        ELSE NodeText(nameNode, contents)
             \o <<"[", ToString(methodNode.startRow), "-", ToString(methodNode.endRow), "]">>

\* The MethodCollapsed of a method, or Null when it has no body.
collectMethodCollapseds(methodNode, baseOffset, contents) ==
    LET bodyNode == Find(methodNode.children, {BLOCK})
    IN  IF bodyNode = Null THEN Null
        ELSE [start |-> bodyNode.startIndex - baseOffset,
              end |-> bodyNode.endIndex - baseOffset,
              collapsedStr |-> <<"{", " ", "id:">>
                               \o getMethodIdentifier(methodNode, contents)
                               \o <<" ", "}">>]

\* The class body the recursion works on: the node itself, or its first
\* body child, or Null.
classBodyOf(node) ==
    IF isClassOrInterfaceBody(node) THEN node
    ELSE Find(node.children, {CLASS_BODY, INTERFACE_BODY})

\* The children of a class body that the recursion visits.
isVisitedChild(child) == child.type = METHOD \/ isClassOrInterface(child)

RECURSIVE collectMethodCollapsedsRecursively(_, _, _), collectOverChildren(_, _, _)
\* The entries the call pushes on collapseds, in the order it pushes them.
collectMethodCollapsedsRecursively(node, baseOffset, contents) ==
    IF isCollapsedNode(node)
    THEN LET collapsed == collectMethodCollapseds(node, baseOffset, contents)
         IN  IF collapsed # Null THEN <<collapsed>> ELSE <<>>
    ELSE LET classBody == classBodyOf(node)
         IN  IF classBody = Null THEN <<>>
             ELSE collectOverChildren(classBody.children, baseOffset, contents)
collectOverChildren(children, baseOffset, contents) ==
    IF children = <<>> THEN <<>>
    ELSE (IF isVisitedChild(Head(children))
          THEN collectMethodCollapsedsRecursively(Head(children), baseOffset, contents)
          ELSE <<>>)
         \o collectOverChildren(Tail(children), baseOffset, contents)

\* Array.prototype.sort((a, b) => b.start - a.start): a stable sort,
\* descending by start (insertion of each element after the elements that
\* do not start before it).
RECURSIVE InsertDesc(_, _)
InsertDesc(sorted, c) ==
    IF sorted = <<>> THEN <<c>>
    ELSE IF Head(sorted).start >= c.start
         THEN <<Head(sorted)>> \o InsertDesc(Tail(sorted), c)
         ELSE <<c>> \o sorted

\* The collapseds left in the order of their collection, top to bottom.
Unsorted(cs) == cs

RECURSIVE SortDesc(_)
SortDesc(cs) ==
    IF cs = <<>> THEN <<>>
    ELSE InsertDesc(SortDesc(SubSeq(cs, 1, Len(cs) - 1)), cs[Len(cs)])

\* The loop of collapseMethodBody over the sorted collapseds.
RECURSIVE applyCollapseds(_, _)
applyCollapseds(modifiedCode, collapseds) ==
    IF collapseds = <<>> THEN modifiedCode
    ELSE LET c == Head(collapseds)
         IN  applyCollapseds(Slice(modifiedCode, 0, c.start) \o c.collapsedStr
                                \o Slice(modifiedCode, c.end, Len(modifiedCode)),
                             Tail(collapseds))

\* code is the text of the node, contents the whole text.
collapseMethodBody(node, code, contents) ==
    applyCollapseds(code,
        SortDesc(collectMethodCollapsedsRecursively(node, node.startIndex, contents)))

getCollapsedClassDefinition(node, code) ==
    LET modifiedCode == collapseMethodBody(node, Slice(code, node.startIndex, node.endIndex), code)
        importsAndPackage == Slice(code, 0, node.startIndex)
    IN  [content |-> importsAndPackage \o modifiedCode,
         startLine |-> 0,
         endLine |-> node.endRow,
         type |-> "class_definition"]

\* The row test on the body of the method instead of the method.
isSingleRowBody(node) ==
    LET bodyNode == Find(node.children, {BLOCK})
    IN  IF bodyNode = Null THEN node.startRow = node.endRow
        ELSE bodyNode.startRow = bodyNode.endRow

\* The test under which chunkMethodRecursively yields nothing for a method.
isSingleRow(node) == node.startRow = node.endRow

\* The chunk chunkMethodRecursively yields for a method node.
methodChunk(node, contents) ==
    [content |-> NodeText(node, contents),
     startLine |-> node.startRow,
     endLine |-> node.endRow,
     methodIdentifier |-> getMethodIdentifier(node, contents),
     type |-> "method_definition"]

\* The chunk of an enum or annotation type with the text of the
\* declaration alone.
declarationChunk(node, contents) ==
    [content |-> NodeText(node, contents),
     startLine |-> node.startRow,
     endLine |-> node.endRow,
     type |-> "class_definition"]

\* The chunk codeChunker yields for an enum or annotation type.
wholeFileChunk(node, contents) ==
    [content |-> contents,
     startLine |-> node.startRow,
     endLine |-> node.endRow,
     type |-> "class_definition"]

----------------------------------------------------------------------------
\* chunkMethodRecursively and the loop of codeChunker as a generator: the
\* position between two suspensions is the index of the top-level child at
\* hand and a stack of frames, one per active call of
\* chunkMethodRecursively.  A frame [node, k] with k = 0 is a call that has
\* not run yet; with k >= 1 the call iterates over node, its class body,
\* and k is the index of the next child.

Frame(node) == [node |-> node, k |-> 0]

\* The position after the topmost call returned; the loop of codeChunker
\* moves on when the last call returns.
Returned(idx, stack) ==
    [idx |-> IF Len(stack) = 1 THEN idx + 1 ELSE idx,
     stack |-> SubSeq(stack, 1, Len(stack) - 1)]

\* The loop over a class body from its last child to its first.
childAtReversed(classBody, k) == classBody.children[Len(classBody.children) - k + 1]

\* The child the loop over a class body takes in its k-th round.
childAt(classBody, k) == classBody.children[k]

\* A suspension: the yield site, the position to go on from, the chunk
\* yielded, and for the record the top-level child and the node it is for.
Suspended(at, idx, stack, chunk, top, node) ==
    [pc |-> at, idx |-> idx, stack |-> stack, chunk |-> chunk,
     yielded |-> IF chunk = <<>> THEN <<>> ELSE <<[top |-> top, at |-> at, node |-> node]>>]

RECURSIVE runToYield(_, _, _, _)
\* Runs the generator from a position to its next yield or to its end.
runToYield(rootNode, contents, idx, stack) ==
    IF stack = <<>>
    THEN IF idx > Len(rootNode.children)
         THEN Suspended("done", idx, stack, <<>>, idx, Null)
         ELSE LET node == rootNode.children[idx]
              IN  IF isClassOrInterface(node)
                  THEN Suspended("yield_class", idx, <<Frame(node)>>,
                                 <<getCollapsedClassDefinition(node, contents)>>, idx, node)
                  ELSE IF ENUM = node.type \/ ANNOTATION = node.type
                  THEN Suspended("yield_whole", idx + 1, <<>>,
                                 <<wholeFileChunk(node, contents)>>, idx, node)
                  ELSE runToYield(rootNode, contents, idx + 1, <<>>)
    ELSE LET top == stack[Len(stack)]
             ret == Returned(idx, stack)
             rest == SubSeq(stack, 1, Len(stack) - 1)
         IN  IF top.k = 0
             THEN IF isCollapsedNode(top.node)
                  THEN IF isSingleRow(top.node)
                       THEN runToYield(rootNode, contents, ret.idx, ret.stack)
                       ELSE Suspended("yield_method", ret.idx, ret.stack,
                                      <<methodChunk(top.node, contents)>>, idx, top.node)
                  ELSE LET classBody == classBodyOf(top.node)
                       IN  IF classBody = Null
                           THEN runToYield(rootNode, contents, ret.idx, ret.stack)
                           ELSE runToYield(rootNode, contents, idx,
                                           Append(rest, [node |-> classBody, k |-> 1]))
             ELSE IF top.k > Len(top.node.children)
                  THEN runToYield(rootNode, contents, ret.idx, ret.stack)
                  ELSE LET child == childAt(top.node, top.k)
                           next == Append(rest, [top EXCEPT !.k = top.k + 1])
                       IN  IF isVisitedChild(child)
                           THEN runToYield(rootNode, contents, idx, Append(next, Frame(child)))
                           ELSE runToYield(rootNode, contents, idx, next)

\* The same functions as the sequences of chunks they yield when consumed
\* to the end.
RECURSIVE chunkMethodRecursively(_, _), chunkOverChildren(_, _)
chunkMethodRecursively(node, contents) ==
    IF isCollapsedNode(node)
    THEN IF isSingleRow(node) THEN <<>> ELSE <<methodChunk(node, contents)>>
    ELSE LET classBody == classBodyOf(node)
         IN  IF classBody = Null THEN <<>>
             ELSE chunkOverChildren(classBody.children, contents)
chunkOverChildren(children, contents) ==
    IF children = <<>> THEN <<>>
    ELSE (IF isVisitedChild(Head(children))
          THEN chunkMethodRecursively(Head(children), contents)
          ELSE <<>>)
         \o chunkOverChildren(Tail(children), contents)

RECURSIVE chunkTopLevel(_, _)
chunkTopLevel(children, contents) ==
    IF children = <<>> THEN <<>>
    ELSE LET node == Head(children)
         IN  (IF isClassOrInterface(node)
              THEN <<getCollapsedClassDefinition(node, contents)>>
                   \o chunkMethodRecursively(node, contents)
              ELSE IF ENUM = node.type \/ ANNOTATION = node.type
              THEN <<wholeFileChunk(node, contents)>>
              ELSE <<>>)
             \o chunkTopLevel(Tail(children), contents)

----------------------------------------------------------------------------
\* The invocations of codeChunker.

VARIABLES
    input,      \* per invocation: [filepath, src]; contents is the text of src
    pc,         \* per invocation: where it is suspended
    root,       \* per invocation: tree.rootNode, Null before the parse
    idx,        \* per invocation: index of the top-level child at hand
    stack,      \* per invocation: the frames of chunkMethodRecursively
    out,        \* per invocation: the chunks the consumer received
    log,        \* per invocation: for each chunk of out, what yielded it
    resolved    \* the qualified names a caller resolved, outermost first

vars == <<input, pc, root, idx, stack, out, log, resolved>>

Filepaths == {"Test.java", "notes.txt"}

\* getParserForFile(filepath) resolves to a parser or to undefined.
getParserForFile(filepath) == filepath = "Test.java"

Inputs(n) == [filepath : Filepaths, src : Sources(n)]

contentsOf(i) == SourceText(input[i].src)

InitChunker(ins) ==
    /\ input = ins
    /\ pc = [i \in DOMAIN ins |-> "start"]
    /\ root = [i \in DOMAIN ins |-> Null]
    /\ idx = [i \in DOMAIN ins |-> 1]
    /\ stack = [i \in DOMAIN ins |-> <<>>]
    /\ out = [i \in DOMAIN ins |-> <<>>]
    /\ log = [i \in DOMAIN ins |-> <<>>]
    /\ resolved = <<>>

Init == \E a \in Inputs(MaxNodes) : InitChunker(<<a>>)

\* The first next() of the consumer: the blank check, then the await of
\* getParserForFile.
Begin(i) ==
    /\ pc[i] = "start"
    /\ pc' = [pc EXCEPT ![i] = IF Len(Trim(contentsOf(i))) = 0 THEN "done" ELSE "await_parser"]
    /\ UNCHANGED <<input, root, idx, stack, out, log, resolved>>

\* The generator goes on, and every consumer receives its chunk.
AdvanceShared(i, rootNode, ix, st) ==
    LET r == runToYield(rootNode, contentsOf(i), ix, st)
    IN  /\ pc' = [pc EXCEPT ![i] = r.pc]
        /\ idx' = [idx EXCEPT ![i] = r.idx]
        /\ stack' = [stack EXCEPT ![i] = r.stack]
        /\ out' = [j \in DOMAIN out |-> out[j] \o r.chunk]
        /\ log' = [j \in DOMAIN log |-> log[j] \o r.yielded]

\* The generator goes on from position (ix, st) to its next yield.
Advance(i, rootNode, ix, st) ==
    LET r == runToYield(rootNode, contentsOf(i), ix, st)
    IN  /\ pc' = [pc EXCEPT ![i] = r.pc]
        /\ idx' = [idx EXCEPT ![i] = r.idx]
        /\ stack' = [stack EXCEPT ![i] = r.stack]
        /\ out' = [out EXCEPT ![i] = out[i] \o r.chunk]
        /\ log' = [log EXCEPT ![i] = log[i] \o r.yielded]

\* getParserForFile resolved, and a missing parser ends the invocation
\* without an error.
ParserResolvedSilent(i) ==
    /\ pc[i] = "await_parser"
    /\ IF ~getParserForFile(input[i].filepath)
       THEN /\ pc' = [pc EXCEPT ![i] = "done"]
            /\ UNCHANGED <<root, idx, stack, out, log>>
       ELSE /\ root' = [root EXCEPT ![i] = ParseFile(input[i].src)]
            /\ Advance(i, ParseFile(input[i].src), 1, <<>>)
    /\ UNCHANGED <<input, resolved>>

\* getParserForFile resolved: throw without a parser, else parse and run to
\* the first yield.
ParserResolved(i) ==
    /\ pc[i] = "await_parser"
    /\ IF ~getParserForFile(input[i].filepath)
       THEN /\ pc' = [pc EXCEPT ![i] = "error"]
            /\ UNCHANGED <<root, idx, stack, out, log>>
       ELSE /\ root' = [root EXCEPT ![i] = ParseFile(input[i].src)]
            /\ Advance(i, ParseFile(input[i].src), 1, <<>>)
    /\ UNCHANGED <<input, resolved>>

\* A further next() of the consumer.
Resume(i) ==
    /\ pc[i] \in {"yield_class", "yield_method", "yield_whole"}
    /\ Advance(i, root[i], idx[i], stack[i])
    /\ UNCHANGED <<input, root, resolved>>

Next == \E i \in DOMAIN pc : Begin(i) \/ ParserResolved(i) \/ Resume(i)

Spec == Init /\ [][Next]_vars

----------------------------------------------------------------------------
\* Two invocations whose consumers interleave their next() calls.

\* Inputs of the second invocation besides the input of the first.
OtherSources ==
    {[lead |-> <<>>, pkg |-> TRUE,
      tops |-> <<Decl(CLASS, <<Decl("method", <<>>),
                               Decl(INTERFACE, <<Decl("method", <<>>)>>)>>),
                 Decl(ENUM, <<>>)>>],
     [lead |-> <<>>, pkg |-> FALSE, tops |-> <<Decl(INTERFACE, <<Decl("wrapped", <<>>)>>)>>],
     [lead |-> <<" ", "\n">>, pkg |-> FALSE, tops |-> <<>>]}

InitPar ==
    \E a \in Inputs(MaxParNodes) :
        \E b \in {a} \cup [filepath : Filepaths, src : OtherSources] :
            InitChunker(<<a, b>>)

SpecPar == InitPar /\ [][Next]_vars

----------------------------------------------------------------------------
\* A caller that resolves the qualified names of a chain of nested types
\* top-down with getFullClassName: the outermost type without a parent
\* name, every nested type with the name resolved for its enclosing type.

nameRoot == ParseFile(input[1].src)

ResolveTop ==
    /\ resolved = <<>>
    /\ \E t \in 1..Len(nameRoot.children) :
          LET node == nameRoot.children[t]
          IN  /\ isClassOrInterface(node)
              /\ resolved' = <<[node |-> node,
                                name |-> getFullClassName(nameRoot, node, contentsOf(1), <<>>)]>>
    /\ UNCHANGED <<input, pc, root, idx, stack, out, log>>

ResolveNested ==
    /\ resolved # <<>>
    /\ LET outer == resolved[Len(resolved)]
           classBody == classBodyOf(outer.node)
       IN  /\ classBody # Null
           /\ \E k \in 1..Len(classBody.children) :
                 LET node == classBody.children[k]
                 IN  /\ isClassOrInterface(node)
                     /\ resolved' = Append(resolved,
                            [node |-> node,
                             name |-> getFullClassName(nameRoot, node, contentsOf(1), outer.name)])
    /\ UNCHANGED <<input, pc, root, idx, stack, out, log>>

InitName ==
    \E src \in Sources(MaxNodes) : InitChunker(<<[filepath |-> "Test.java", src |-> src]>>)

NextName == ResolveTop \/ ResolveNested

SpecName == InitName /\ [][NextName]_vars

----------------------------------------------------------------------------
\* Vocabulary of the properties.

Last(seq) == seq[Len(seq)]

IsPrefix(a, b) == Len(a) <= Len(b) /\ a = SubSeq(b, 1, Len(a))

isBlank(i) == \A k \in 1..Len(contentsOf(i)) : IsSpace(contentsOf(i)[k])

isTypeDeclaration(node) == node.type \in {CLASS, INTERFACE}
isBodyOfType(node) == node.type \in {CLASS_BODY, INTERFACE_BODY}
isMethodOrConstructor(node) == node.type \in {METHOD, CONSTRUCTOR}
isMethod(node) == node.type = METHOD
isExecutableBody(node) == node.type \in {BLOCK, "constructor_body"}
hasBody(node) == SelectSeq(node.children, isExecutableBody) # <<>>
bodyOf(node) == SelectSeq(node.children, isExecutableBody)[1]
severalRows(node) == node.startRow < node.endRow

RECURSIVE declaredIn(_), declaredAmong(_)
\* The methods and constructors a type declaration declares, in document
\* order: those of its body and those of the class and interface
\* declarations nested in it, at any depth.
declaredIn(typeNode) ==
    LET bodies == SelectSeq(typeNode.children, isBodyOfType)
    IN  IF bodies = <<>> THEN <<>> ELSE declaredAmong(bodies[1].children)
declaredAmong(members) ==
    IF members = <<>> THEN <<>>
    ELSE (IF isMethodOrConstructor(Head(members)) THEN <<Head(members)>>
          ELSE IF isTypeDeclaration(Head(members)) THEN declaredIn(Head(members))
          ELSE <<>>)
         \o declaredAmong(Tail(members))

\* The placeholder { id:name[startRow-endRow] } of a declaration.
placeholderOf(decl, contents) ==
    <<"{", " ", "id:">>
    \o NodeText(SelectSeq(decl.children, IsIdentifier)[1], contents)
    \o <<"[", ToString(decl.startRow), "-", ToString(decl.endRow), "]", " ", "}">>

RECURSIVE forwardPass(_, _, _, _)
\* The text from cursor to stop in which the body of each of the
\* declarations, taken in document order, is its placeholder.
forwardPass(contents, cursor, stop, decls) ==
    IF decls = <<>> THEN Slice(contents, cursor, stop)
    ELSE Slice(contents, cursor, bodyOf(Head(decls)).startIndex)
         \o placeholderOf(Head(decls), contents)
         \o forwardPass(contents, bodyOf(Head(decls)).endIndex, stop, Tail(decls))

CountOfType(chunks, type) == Cardinality({k \in 1..Len(chunks) : chunks[k].type = type})

topLevelTypes(i) == SelectSeq(root[i].children, isTypeDeclaration)

isWholeFileKind(node) == node.type \in {ENUM, ANNOTATION}

\* The part of a skeleton chunk that renders the type itself.
typePart(chunk, typeNode) == Slice(chunk.content, typeNode.startIndex, Len(chunk.content))

----------------------------------------------------------------------------
\* C1: a file with one top-level class or interface that declares k methods
\* and constructors of more than one row, nested types included, yields
\* exactly 1 + k chunks: one class_definition and k method_definition.
C1_Completeness ==
    \A i \in DOMAIN pc :
        (/\ pc[i] = "done"
         /\ root[i] # Null
         /\ Len(topLevelTypes(i)) = 1
         /\ SelectSeq(root[i].children, isWholeFileKind) = <<>>)
        => LET k == Len(SelectSeq(declaredIn(topLevelTypes(i)[1]), severalRows))
           IN  /\ Len(out[i]) = 1 + k
               /\ CountOfType(out[i], "class_definition") = 1
               /\ CountOfType(out[i], "method_definition") = k

\* C2: per top-level class or interface the skeleton chunk comes first and
\* its method chunks follow in strictly increasing document position, and
\* the chunks of one top-level declaration all precede those of a later one.
C2_EmissionOrder ==
    \A i \in DOMAIN pc :
        /\ Len(out[i]) = Len(log[i])
        /\ \A k \in 1..Len(log[i]) :
              /\ (log[i][k].at = "yield_method") = (out[i][k].type = "method_definition")
              /\ log[i][k].at = "yield_method" =>
                    /\ out[i][k].startLine = log[i][k].node.startRow
                    /\ \E j \in 1..(k - 1) : /\ log[i][j].top = log[i][k].top
                                             /\ log[i][j].at = "yield_class"
        /\ \A j, k \in 1..Len(log[i]) :
              j < k =>
                 /\ log[i][j].top <= log[i][k].top
                 /\ log[i][j].top = log[i][k].top =>
                       /\ log[i][k].at = "yield_method"
                       /\ log[i][j].at = "yield_method" =>
                             /\ log[i][j].node.startIndex < log[i][k].node.startIndex
                             /\ out[i][j].startLine < out[i][k].startLine

\* C2 witness: two method chunks of one top-level type were yielded after
\* its skeleton.
C2_Witness ==
    \E i \in DOMAIN pc :
        /\ Len(log[i]) >= 3
        /\ log[i][1].at = "yield_class"
        /\ log[i][2].at = "yield_method"
        /\ log[i][3].at = "yield_method"
        /\ log[i][3].top = log[i][1].top

\* C3: the type part of a skeleton chunk is the type's text with the body
\* of every method and constructor that has one, at any nesting depth,
\* replaced by its placeholder, and nothing else changed.
C3_SkeletonCollapsesEveryBody ==
    \A i \in DOMAIN pc :
        pc[i] = "yield_class" =>
            LET typeNode == Last(log[i]).node
            IN  typePart(Last(out[i]), typeNode)
                = forwardPass(contentsOf(i), typeNode.startIndex, typeNode.endIndex,
                              SelectSeq(declaredIn(typeNode), hasBody))

\* The methods with a body that a type declaration declares.
isMethodWithBody(node) == isMethod(node) /\ hasBody(node)
methodsWithBodyIn(typeNode) == SelectSeq(declaredIn(typeNode), isMethodWithBody)

\* The growth of the text when the body of decl becomes its placeholder.
growthOf(decl, contents) ==
    Len(placeholderOf(decl, contents)) - (bodyOf(decl).endIndex - bodyOf(decl).startIndex)

RECURSIVE growthBefore(_, _, _)
\* The growth by the first n of the declarations.
growthBefore(decls, n, contents) ==
    IF n = 0 THEN 0
    ELSE growthBefore(decls, n - 1, contents) + growthOf(decls[n], contents)

\* The n-th of the methods with a body of typeNode has its placeholder in
\* the skeleton chunk where its body was, followed by what followed it.
collapsedInSkeleton(chunk, typeNode, n, contents) ==
    LET decls == methodsWithBodyIn(typeNode)
        body == bodyOf(decls[n])
        at == body.startIndex + growthBefore(decls, n - 1, contents)
        ph == placeholderOf(decls[n], contents)
    IN  /\ Slice(chunk.content, at, at + Len(ph)) = ph
        /\ Slice(chunk.content, at + Len(ph), at + Len(ph) + 1)
           = Slice(contents, body.endIndex, body.endIndex + 1)
        /\ Slice(chunk.content, at - 1, at) = Slice(contents, body.startIndex - 1, body.startIndex)

\* The nodes that yielded the method chunks of an invocation.
yieldedMethods(i) == {log[i][k].node : k \in {j \in 1..Len(log[i]) : log[i][j].at = "yield_method"}}

declaredPackage(rootNode, contents) ==
    NodeText(SelectSeq(SelectSeq(rootNode.children, LAMBDA c : c.type = PACKAGE)[1].children,
                       IsIdentifier)[1], contents)

ownName(typeNode, contents) == NodeText(SelectSeq(typeNode.children, IsIdentifier)[1], contents)

RECURSIVE binaryName(_, _, _)
\* Outer$Inner$...: the names of the first n resolved types joined by $.
binaryName(chain, n, contents) ==
    IF n = 1 THEN ownName(chain[1].node, contents)
    ELSE binaryName(chain, n - 1, contents) \o <<"$">> \o ownName(chain[n].node, contents)

\* C5: resolved top-down in a file with package pkg, Outer, Inner and
\* Deepest get pkg.Outer, pkg.Outer$Inner and pkg.Outer$Inner$Deepest.
C5_BinaryNames ==
    input[1].src.pkg =>
        \A n \in 1..Len(resolved) :
            resolved[n].name
            = declaredPackage(nameRoot, contentsOf(1)) \o <<".">> \o binaryName(resolved, n, contentsOf(1))

\* C6: a skeleton chunk starts at line 0, ends at the end row of its type,
\* and what precedes the type in its content is package and import text
\* only, also in a file with several top-level types.
C6_SkeletonHeaderOnly ==
    \A i \in DOMAIN pc :
        pc[i] = "yield_class" =>
            LET typeNode == Last(log[i]).node
                chunk == Last(out[i])
            IN  /\ chunk.startLine = 0
                /\ chunk.endLine = typeNode.endRow
                /\ \A q \in 1..typeNode.startIndex :
                      \/ IsSpace(chunk.content[q])
                      \/ \E c \in 1..Len(root[i].children) :
                            /\ root[i].children[c].type \in {PACKAGE, "import_declaration"}
                            /\ root[i].children[c].startIndex < q
                            /\ q <= root[i].children[c].endIndex

\* C7: a top-level enum or annotation type yields exactly one chunk, a
\* class_definition with the whole file text and the rows of the
\* declaration, and no method chunk; a top-level child that is neither a
\* type nor one of these yields nothing.
C7_WholeFileChunks ==
    \A i \in DOMAIN pc :
        /\ \A k \in 1..Len(log[i]) :
              log[i][k].at = "yield_whole" =>
                 /\ isWholeFileKind(log[i][k].node)
                 /\ out[i][k] = [content |-> contentsOf(i),
                                 startLine |-> log[i][k].node.startRow,
                                 endLine |-> log[i][k].node.endRow,
                                 type |-> "class_definition"]
        /\ (pc[i] = "done" /\ root[i] # Null) =>
              \A t \in 1..Len(root[i].children) :
                  LET mine == {k \in 1..Len(log[i]) : log[i][k].top = t}
                  IN  /\ isWholeFileKind(root[i].children[t]) =>
                            /\ Cardinality(mine) = 1
                            /\ \A k \in mine : /\ log[i][k].at = "yield_whole"
                                               /\ log[i][k].node = root[i].children[t]
                      /\ (~isWholeFileKind(root[i].children[t])
                          /\ ~isTypeDeclaration(root[i].children[t])) => mine = {}

\* C7 witness: a file with an enum or annotation type and a further
\* top-level child that is no type was chunked to the end.
C7_Witness ==
    \E i \in DOMAIN pc :
        /\ pc[i] = "done"
        /\ root[i] # Null
        /\ \E k \in 1..Len(log[i]) :
              /\ log[i][k].at = "yield_whole"
              /\ out[i][k].content # NodeText(log[i][k].node, contentsOf(i))
        /\ \E t \in 1..Len(root[i].children) :
              root[i].children[t].type \in {PACKAGE, "import_declaration"}

\* C8: with empty or whitespace-only contents the invocation ends with no
\* chunk and no error and never asks for a parser, whatever the path.
C8_BlankYieldsNothing ==
    \A i \in DOMAIN pc :
        isBlank(i) => /\ pc[i] \in {"start", "done"}
                      /\ out[i] = <<>>

\* C8 witness: an invocation with whitespace-only contents and a path
\* without a parser has ended.
C8_Witness ==
    \E i \in DOMAIN pc :
        /\ isBlank(i)
        /\ contentsOf(i) # <<>>
        /\ ~getParserForFile(input[i].filepath)
        /\ pc[i] = "done"

\* C9: with non-blank contents and no parser the invocation fails before
\* any chunk; an invocation that failed has yielded no chunk, and one that
\* yielded a chunk ends normally.
C9_FailsBeforeAnyChunk ==
    \A i \in DOMAIN pc :
        /\ (~isBlank(i) /\ ~getParserForFile(input[i].filepath)
            /\ pc[i] \notin {"start", "await_parser"}) => pc[i] = "error"
        /\ pc[i] = "error" => out[i] = <<>>
        /\ out[i] # <<>> => pc[i] \in {"yield_class", "yield_method", "yield_whole", "done"}

\* C9 witness: an invocation failed for want of a parser.
C9_Witness ==
    \E i \in DOMAIN pc :
        /\ pc[i] = "error"
        /\ ~isBlank(i)
        /\ input[i].src.tops # <<>>

\* The chunks an invocation yields when it runs alone to its end.
aloneSequence(in) ==
    IF Len(Trim(SourceText(in.src))) = 0 \/ ~getParserForFile(in.filepath) THEN <<>>
    ELSE chunkTopLevel(ParseFile(in.src).children, SourceText(in.src))

\* C10: the chunks of an invocation are a function of its input: however
\* two invocations interleave, each yields the sequence it yields alone,
\* and two invocations on the same input yield the same sequence.
C10_Deterministic ==
    /\ \A i \in DOMAIN pc :
          /\ IsPrefix(out[i], aloneSequence(input[i]))
          /\ pc[i] = "done" => out[i] = aloneSequence(input[i])
    /\ \A i, j \in DOMAIN pc :
          (input[i] = input[j] /\ pc[i] = "done" /\ pc[j] = "done") => out[i] = out[j]

\* C10 witness: two invocations are both suspended at a yield, one having
\* yielded more chunks than the other.
C10_Witness ==
    /\ DOMAIN pc = {1, 2}
    /\ pc[1] \in {"yield_class", "yield_method", "yield_whole"}
    /\ pc[2] \in {"yield_class", "yield_method", "yield_whole"}
    /\ Len(out[1]) >= 2
    /\ Len(out[2]) = 1

----------------------------------------------------------------------------
\* getClassName of src/core/util/javaCodeUtil.ts.  A node is given by its
\* path, the child indices that lead to it from the root; node.parent is
\* the node of the path without its last index.

\* JAVA_NODE_TYPES.CLASS and JAVA_NODE_TYPES.PACKAGE.
JAVA_NODE_TYPES_CLASS == "class_declaration"
JAVA_NODE_TYPES_PACKAGE == "package_declaration"

\* undefined, and a string that is there.
Undefined == [defined |-> FALSE, text |-> <<>>]
Defined(text) == [defined |-> TRUE, text |-> text]

\* The parent of the root: no node.
NoPath == <<0>>

RECURSIVE nodeAt(_, _)
nodeAt(rootNode, path) ==
    IF path = <<>> THEN rootNode
    ELSE nodeAt(rootNode.children[Head(path)], Tail(path))

parentPath(path) == SubSeq(path, 1, Len(path) - 1)

RECURSIVE PathsBelow(_, _)
\* The paths of the nodes of the tree below and at the node of path.
PathsBelow(rootNode, path) ==
    {path} \cup UNION {PathsBelow(rootNode, Append(path, k)) :
                          k \in 1..Len(nodeAt(rootNode, path).children)}

\* identifier?.text of the first identifier child.
identifierText(node, contents) ==
    LET identifier == Find(node.children, {IDENTIFIER})
    IN  IF identifier = Null THEN Undefined ELSE Defined(NodeText(identifier, contents))

RECURSIVE nearestClassName(_, _, _)
\* The loop of getClassName from current upwards; current is null when
\* path is NoPath.
nearestClassName(rootNode, path, contents) ==
    IF path = NoPath THEN Undefined
    ELSE IF nodeAt(rootNode, path).type = JAVA_NODE_TYPES_CLASS
         THEN identifierText(nodeAt(rootNode, path), contents)
         ELSE nearestClassName(rootNode,
                               (IF path = <<>> THEN NoPath ELSE parentPath(path)),
                               contents)

RECURSIVE joinWithDot(_)
\* Array.prototype.join(".")
joinWithDot(texts) ==
    IF texts = <<>> THEN <<>>
    ELSE IF Len(texts) = 1 THEN texts[1]
    ELSE texts[1] \o <<".">> \o joinWithDot(Tail(texts))

RECURSIVE identifierTexts(_, _)
\* children.filter(identifier).map(text)
identifierTexts(children, contents) ==
    IF children = <<>> THEN <<>>
    ELSE (IF Head(children).type = IDENTIFIER
          THEN <<NodeText(Head(children), contents)>> ELSE <<>>)
         \o identifierTexts(Tail(children), contents)

\* getPackageName of javaCodeUtil.ts: the package declaration among the
\* children of the root.
utilGetPackageName(rootNode, contents) ==
    LET packageDecl == Find(rootNode.children, {JAVA_NODE_TYPES_PACKAGE})
    IN  IF packageDecl # Null
        THEN Defined(joinWithDot(identifierTexts(packageDecl.children, contents)))
        ELSE Undefined

\* A value is truthy when it is a string that is not empty.
truthy(value) == value.defined /\ value.text # <<>>

getClassName(rootNode, path, contents) ==
    LET className ==
            IF nodeAt(rootNode, path).type = JAVA_NODE_TYPES_CLASS
            THEN identifierText(nodeAt(rootNode, path), contents)
            ELSE nearestClassName(rootNode,
                                  (IF path = <<>> THEN NoPath ELSE parentPath(path)),
                                  contents)
        packageName == utilGetPackageName(rootNode, contents)
    IN  IF ~truthy(className) THEN Undefined
        ELSE IF truthy(packageName)
             THEN Defined(packageName.text \o <<".">> \o className.text)
             ELSE className

\* A caller asks for the class name of some node of the tree.
LookupClassName ==
    /\ resolved = <<>>
    /\ \E path \in PathsBelow(nameRoot, <<>>) :
          resolved' = <<[path |-> path,
                         name |-> getClassName(nameRoot, path, contentsOf(1))]>>
    /\ UNCHANGED <<input, pc, root, idx, stack, out, log>>

SpecLookup == InitName /\ [][LookupClassName]_vars

RECURSIVE enclosingTypePath(_, _)
\* The path of the nearest class or interface declaration at or above the
\* node of path, or NoPath.
enclosingTypePath(rootNode, path) ==
    IF isTypeDeclaration(nodeAt(rootNode, path)) THEN path
    ELSE IF path = <<>> THEN NoPath
    ELSE enclosingTypePath(rootNode, parentPath(path))

\* C11: getClassName gives, for a node of any kind, the package-qualified
\* name of the nearest class or interface declaration at or above it, and
\* undefined exactly when there is none or it has no identifier.
C11_NearestEnclosingType ==
    \A n \in 1..Len(resolved) :
        LET at == enclosingTypePath(nameRoot, resolved[n].path)
            names == IF at = NoPath THEN <<>>
                     ELSE SelectSeq(nodeAt(nameRoot, at).children, IsIdentifier)
        IN  IF names = <<>>
            THEN ~resolved[n].name.defined
            ELSE /\ resolved[n].name.defined
                 /\ resolved[n].name.text
                    = (IF input[1].src.pkg
                       THEN declaredPackage(nameRoot, contentsOf(1)) \o <<".">>
                       ELSE <<>>)
                      \o NodeText(names[1], contentsOf(1))

----------------------------------------------------------------------------
\* The spans in ascending order of start.
RECURSIVE InsertAsc(_, _)
InsertAsc(sorted, c) ==
    IF sorted = <<>> THEN <<c>>
    ELSE IF Head(sorted).start <= c.start
         THEN <<Head(sorted)>> \o InsertAsc(Tail(sorted), c)
         ELSE <<c>> \o sorted

RECURSIVE SortAsc(_)
SortAsc(cs) ==
    IF cs = <<>> THEN <<>>
    ELSE InsertAsc(SortAsc(SubSeq(cs, 1, Len(cs) - 1)), cs[Len(cs)])

RECURSIVE singlePass(_, _, _)
\* One pass over code from cursor on: the text between the spans is
\* copied and each span gives its placeholder; the spans ascend.
singlePass(code, cursor, spans) ==
    IF spans = <<>> THEN Slice(code, cursor, Len(code))
    ELSE Slice(code, cursor, Head(spans).start)
         \o Head(spans).collapsedStr
         \o singlePass(code, Head(spans).end, Tail(spans))

\* The collapse specs collected for the type whose skeleton was yielded
\* last, in the order of their collection.
collectedFor(i) ==
    collectMethodCollapsedsRecursively(Last(log[i]).node, Last(log[i]).node.startIndex,
                                       contentsOf(i))

\* C12: the collapse specs of a type do not overlap and lie within the
\* text of the type, and applying them in descending order of start gives
\* the text of a single forward pass over the original text of the type.
C12_SpliceIsForwardPass ==
    \A i \in DOMAIN pc :
        pc[i] = "yield_class" =>
            LET typeNode == Last(log[i]).node
                code == NodeText(typeNode, contentsOf(i))
                cs == collectedFor(i)
            IN  /\ \A a \in 1..Len(cs) :
                      /\ 0 <= cs[a].start
                      /\ cs[a].start < cs[a].end
                      /\ cs[a].end <= Len(code)
                /\ \A a, b \in 1..Len(cs) :
                      a # b => (cs[a].end <= cs[b].start \/ cs[b].end <= cs[a].start)
                /\ typePart(Last(out[i]), typeNode) = singlePass(code, 0, SortAsc(cs))

\* C12 witness: a skeleton was yielded for a type with two collapse specs
\* whose placeholders are longer than the bodies they replace.
C12_Witness ==
    \E i \in DOMAIN pc :
        /\ pc[i] = "yield_class"
        /\ Len(collectedFor(i)) >= 2
        /\ \A a \in 1..Len(collectedFor(i)) :
              Len(collectedFor(i)[a].collapsedStr) > collectedFor(i)[a].end - collectedFor(i)[a].start

----------------------------------------------------------------------------
\* The chunks of an invocation that are method chunks, by their index.
methodChunkIndices(i) == {k \in 1..Len(out[i]) : out[i][k].type = "method_definition"}

\* C13: within one invocation no two method_definition chunks carry the
\* same methodIdentifier: each is name[startRow-endRow] with
\* startRow < endRow, and no two of the method nodes that yielded them
\* have the same start row and the same end row.
C13_DistinctIdentifiers ==
    \A i \in DOMAIN pc :
        /\ \A k \in methodChunkIndices(i) :
              /\ out[i][k].startLine < out[i][k].endLine
              /\ out[i][k].methodIdentifier
                 = ownName(log[i][k].node, contentsOf(i))
                   \o <<"[", ToString(out[i][k].startLine), "-",
                        ToString(out[i][k].endLine), "]">>
        /\ \A j, k \in methodChunkIndices(i) :
              j # k =>
                 /\ out[i][j].methodIdentifier # out[i][k].methodIdentifier
                 /\ <<log[i][j].node.startRow, log[i][j].node.endRow>>
                    # <<log[i][k].node.startRow, log[i][k].node.endRow>>

\* C13 witness: two methods of the same name that share a row both
\* yielded a chunk.
C13_Witness ==
    \E i \in DOMAIN pc :
        \E j, k \in methodChunkIndices(i) :
            /\ j < k
            /\ ownName(log[i][j].node, contentsOf(i)) = ownName(log[i][k].node, contentsOf(i))
            /\ log[i][j].node.endRow = log[i][k].node.startRow

====
